---- MODULE Spec2Model ----
(***************************************************************************)
(* Activity synchronisation and reconciliation subsystem of runaway-edge.  *)
(*                                                                         *)
(* Groups of state, each driven by its own specification:                  *)
(*   Spec / FairSpec : the sync_jobs queue, the sync-processor invocations *)
(*                     and the two pg_cron sweeps;                         *)
(*   SpecTick        : one sync-processor invocation over a queue that     *)
(*                     holds more rows than one batch;                     *)
(*   SpecStore       : the activities table and the three ingestion paths  *)
(*                     (sync processor, Strava webhook, Garmin webhook);   *)
(*   SpecToken       : the credential rows of one athlete and the handlers *)
(*                     that refresh the token and fetch from the provider; *)
(*   SpecFetch       : the paginated fetch and the run of one sync job,    *)
(*                     activity by activity;                               *)
(*   SpecWebhook     : the answer of the Strava webhook to a POST;         *)
(*   SpecHook        : the Strava webhook step by step: a create/activity  *)
(*                     handler, deauthorizations that arrive meanwhile and *)
(*                     the subscription verification (GET);                *)
(*   SpecMatch       : the Garmin webhook's duplicate lookup against a     *)
(*                     table that already holds Strava activities;         *)
(*   SpecRetention / FairRetention : the job engine together with the      *)
(*                     daily retention sweep.                              *)
(*                                                                         *)
(* Conventions.                                                            *)
(*  - A datastore call whose result the code does not inspect is taken to  *)
(*    succeed; a call whose error the code tests can also fail.            *)
(*  - Timestamps of sync_jobs are kept as the time elapsed since they were *)
(*    written (started_ago in minutes, completed_ago in days), which is    *)
(*    what the sweeps compare against NOW(); elapsed times saturate just   *)
(*    above the threshold they are compared with.                          *)
(***************************************************************************)
EXTENDS Integers, Sequences, FiniteSets, TLC

(***************************************************************************)
(* Bounds of the model                                                     *)
(***************************************************************************)
MaxJobs == 1
MaxWorkers == 2
MaxCrashes == 1
TimeStep == 30
DayStep == 30
MaxDeliveries == 2
MaxRuns == 2
MaxPages == 2
MaxTime == 3
MaxRequests == 101
TokenLife == 2

(***************************************************************************)
(* Program constants                                                       *)
(***************************************************************************)
BatchLimit == 5
StaleMinutes == 30
MaxRetry == 3
RetentionDays == 30
TimeWindowSec == 120
DistanceTolerance == 100
DurationTolerance == 60

Null == -1

JobIds == 1..MaxJobs
Workers == 1..MaxWorkers

Min(a, b) == IF a < b THEN a ELSE b

VARIABLES
  jobs,      \* sync_jobs: job id -> row ("absent": no such row)
  nextJob,   \* number of rows inserted so far; created_at order is id order
  proc,      \* sync-processor invocations: position and remaining batch
  crashes    \* invocations that died so far

VARIABLES
  activities, \* the activities table: a set of rows, at most one per id
  now,        \* Date.now() of the ingestion handlers, in seconds
  nStores,    \* ingestions handled so far
  lastStore,  \* the ingestion handled last, and what it decided
  ingested    \* provider reports stored without error so far

VARIABLES
  tokens,     \* the athlete's credential row in strava_tokens and in athletes
  issued,     \* access tokens the provider has issued: token -> expiry
  clock,      \* wall-clock time of the fetching handlers, in seconds
  run,        \* position and locals of the fetching handler that runs
  calls       \* provider and credential-store calls of that run, in order

VARIABLES
  sync,       \* the fetch that runs: its inputs, loop variables and result
  wire,       \* page requests and waits of that fetch, in order
  job         \* the sync job that processJob runs: its row and what it stored

VARIABLES
  post,       \* the POST answered last by the Strava webhook, and its answer
  athlete,    \* the row of athletes of the athlete the webhook events name
  handler,    \* the create/activity handler in flight and what it has done
  verify      \* the GET verification answered last

jobVars == <<jobs, nextJob, proc, crashes>>
storeVars == <<activities, now, nStores, lastStore, ingested>>
tokenVars == <<tokens, issued, clock, run, calls>>
syncVars == <<sync, wire, job>>
hookVars == <<post, athlete, handler, verify>>

vars == <<jobs, nextJob, proc, crashes,
          activities, now, nStores, lastStore, ingested,
          tokens, issued, clock, run, calls,
          sync, wire, job,
          post, athlete, handler, verify>>

(***************************************************************************)
(* sync_jobs rows                                                          *)
(***************************************************************************)
AbsentRow ==
  [status |-> "absent", started_ago |-> Null, completed_ago |-> Null,
   retry_count |-> 0, error_message |-> "NULL"]

\* the row the job-creation handler inserts (column defaults of sync_jobs)
NewJobRow ==
  [status |-> "pending", started_ago |-> Null, completed_ago |-> Null,
   retry_count |-> 0, error_message |-> "NULL"]

IdleProc == [pc |-> "idle", queue |-> <<>>]

\* every elapsed time above a threshold is the same to the sweep that tests it
StartedCap == StaleMinutes + 1
CompletedCap == RetentionDays + 1

InitJobs ==
  /\ jobs = [j \in JobIds |-> AbsentRow]
  /\ nextJob = 0
  /\ proc = [w \in Workers |-> IdleProc]
  /\ crashes = 0

(***************************************************************************)
(* Job creation (sync-beta job endpoint)                                   *)
(***************************************************************************)
CreateSyncJob ==
  /\ nextJob < MaxJobs
  /\ nextJob' = nextJob + 1
  /\ jobs' = [jobs EXCEPT ![nextJob + 1] = NewJobRow]
  /\ UNCHANGED <<proc, crashes>>
  /\ UNCHANGED <<storeVars, tokenVars, syncVars, hookVars>>

(***************************************************************************)
(* sync-processor                                                          *)
(***************************************************************************)
RECURSIVE PendingFrom(_, _)
\* ids of the pending rows with id >= j, ascending created_at
PendingFrom(js, j) ==
  IF j \notin DOMAIN js THEN <<>>
  ELSE IF js[j].status = "pending" THEN <<j>> \o PendingFrom(js, j + 1)
       ELSE PendingFrom(js, j + 1)

\* the limit left out
SelectPendingUnlimited(js) == PendingFrom(js, 1)

\* .eq('status','pending').order('created_at', ascending).limit(5)
SelectPending(js) ==
  LET all == PendingFrom(js, 1)
  IN  SubSeq(all, 1, Min(Len(all), BatchLimit))

\* The invocation reads its batch.  With no pending job it answers
\* "No pending jobs" and changes nothing, so that case is a stuttering step.
SelectPendingJobs(w) ==
  /\ proc[w].pc = "idle"
  /\ SelectPending(jobs) # <<>>
  /\ proc' = [proc EXCEPT ![w] = [pc |-> "claim", queue |-> SelectPending(jobs)]]
  /\ UNCHANGED <<jobs, nextJob, crashes>>
  /\ UNCHANGED <<storeVars, tokenVars, syncVars, hookVars>>

\* update({status: 'in_progress', started_at: now}).eq('id', jobId)
MarkedInProgress(row) ==
  IF row.status = "absent" THEN row
  ELSE [row EXCEPT !.status = "in_progress", !.started_ago = 0]

MarkInProgress(w) ==
  /\ proc[w].pc = "claim"
  /\ jobs' = [jobs EXCEPT ![Head(proc[w].queue)] = MarkedInProgress(@)]
  /\ proc' = [proc EXCEPT ![w].pc = "run"]
  /\ UNCHANGED <<nextJob, crashes>>
  /\ UNCHANGED <<storeVars, tokenVars, syncVars, hookVars>>

\* update({status: 'completed', completed_at: now, counters}).eq('id', jobId)
MarkedCompleted(row) ==
  IF row.status = "absent" THEN row
  ELSE [row EXCEPT !.status = "completed", !.completed_ago = 0]

\* update({status: 'failed', completed_at: now, error_message}).eq('id', jobId)
MarkedFailed(row) ==
  IF row.status = "absent" THEN row
  ELSE [row EXCEPT !.status = "failed", !.completed_ago = 0,
                   !.error_message = "job_error"]

\* the rest of the batch dropped after a job
NextInBatchAbandons(p) == IdleProc

\* after a job the for-loop of the invocation goes on with the next one
NextInBatch(p) ==
  IF Len(p.queue) > 1 THEN [pc |-> "claim", queue |-> Tail(p.queue)]
  ELSE IdleProc

\* The try block of processJob ends: it either reached the final update or
\* threw (no tokens, refresh rejected, provider error) into the catch block.
FinishJob(w, ok) ==
  /\ proc[w].pc = "run"
  /\ jobs' = [jobs EXCEPT ![Head(proc[w].queue)] =
                 IF ok THEN MarkedCompleted(@) ELSE MarkedFailed(@)]
  /\ proc' = [proc EXCEPT ![w] = NextInBatch(@)]
  /\ UNCHANGED <<nextJob, crashes>>
  /\ UNCHANGED <<storeVars, tokenVars, syncVars, hookVars>>

\* The isolate running an invocation dies (wall-clock limit, crash).
WorkerCrash(w) ==
  /\ proc[w].pc # "idle"
  /\ crashes < MaxCrashes
  /\ crashes' = crashes + 1
  /\ proc' = [proc EXCEPT ![w] = IdleProc]
  /\ UNCHANGED <<jobs, nextJob>>
  /\ UNCHANGED <<storeVars, tokenVars, syncVars, hookVars>>

(***************************************************************************)
(* Time                                                                    *)
(***************************************************************************)
OlderByMinutes(row) ==
  IF row.started_ago = Null THEN row
  ELSE [row EXCEPT !.started_ago = Min(@ + TimeStep, StartedCap)]

OlderByDays(row) ==
  [row EXCEPT !.started_ago = IF @ = Null THEN Null ELSE StartedCap,
              !.completed_ago = IF @ = Null THEN Null
                                ELSE Min(@ + DayStep, CompletedCap)]

MinutesPass ==
  /\ jobs' = [j \in JobIds |-> OlderByMinutes(jobs[j])]
  /\ jobs' # jobs
  /\ UNCHANGED <<nextJob, proc, crashes>>
  /\ UNCHANGED <<storeVars, tokenVars, syncVars, hookVars>>

DaysPass ==
  /\ jobs' = [j \in JobIds |-> OlderByDays(jobs[j])]
  /\ jobs' # jobs
  /\ UNCHANGED <<nextJob, proc, crashes>>
  /\ UNCHANGED <<storeVars, tokenVars, syncVars, hookVars>>

(***************************************************************************)
(* pg_cron sweeps                                                          *)
(***************************************************************************)
\* the age test left out
StuckRowAnyAge(row) ==
  row.status = "in_progress"

\* WHERE status = 'in_progress' AND started_at < NOW() - INTERVAL '30 minutes'
StuckRow(row) ==
  /\ row.status = "in_progress"
  /\ row.started_ago # Null
  /\ row.started_ago > StaleMinutes

\* retry_count <= 3 in place of retry_count < 3
ResetForRetryOffByOne(row) ==
  IF StuckRow(row) /\ row.retry_count <= MaxRetry
  THEN [row EXCEPT !.status = "pending", !.started_ago = Null,
                   !.retry_count = @ + 1, !.error_message = "timed_out_reset"]
  ELSE row

\* first UPDATE of reset_stuck_sync_jobs
ResetForRetry(row) ==
  IF StuckRow(row) /\ row.retry_count < MaxRetry
  THEN [row EXCEPT !.status = "pending", !.started_ago = Null,
                   !.retry_count = @ + 1, !.error_message = "timed_out_reset"]
  ELSE row

\* the second UPDATE left out
FailExhaustedNever(row) ==
  row

\* second UPDATE of reset_stuck_sync_jobs
FailExhausted(row) ==
  IF StuckRow(row) /\ row.retry_count >= MaxRetry
  THEN [row EXCEPT !.status = "failed", !.completed_ago = 0,
                   !.error_message = "retry_exceeded"]
  ELSE row

\* both statements run in the function's transaction, one after the other
reset_stuck_sync_jobs ==
  /\ jobs' = [j \in JobIds |-> FailExhausted(ResetForRetry(jobs[j]))]
  /\ jobs' # jobs
  /\ UNCHANGED <<nextJob, proc, crashes>>
  /\ UNCHANGED <<storeVars, tokenVars, syncVars, hookVars>>

\* the age test left out
PurgeableAnyAge(row) ==
  row.status \in {"completed", "failed"}

\* WHERE status IN ('completed','failed') AND completed_at < NOW() - 30 days
Purgeable(row) ==
  /\ row.status \in {"completed", "failed"}
  /\ row.completed_ago # Null
  /\ row.completed_ago > RetentionDays

cleanup_old_sync_jobs ==
  /\ jobs' = [j \in JobIds |-> IF Purgeable(jobs[j]) THEN AbsentRow ELSE jobs[j]]
  /\ jobs' # jobs
  /\ UNCHANGED <<nextJob, proc, crashes>>
  /\ UNCHANGED <<storeVars, tokenVars, syncVars, hookVars>>

(***************************************************************************)
(* The activities table and its three writers                              *)
(***************************************************************************)
Abs(x) == IF x < 0 THEN 0 - x ELSE x

\* the real-world workouts whose provider reports are followed
Workouts == {1}

\* seconds that can go by between two deliveries
Gaps == {0, 1}

\* JavaScript's !x for a number column or field: absent, or zero
Falsy(x) == x = Null \/ x = 0

Columns ==
  {"id", "athlete_id", "source", "external_id", "activity_date", "distance",
   "elapsed_time", "average_heart_rate", "average_cadence", "device_name",
   "raw_data", "updated_at", "workout"}

\* column defaults of activities; "workout" is the real-world workout a row
\* was created for, which no handler reads
ColumnDefault ==
  [c \in Columns |->
     CASE c = "source" -> "strava"
       [] c = "external_id" -> <<>>
       [] c = "raw_data" -> <<>>
       [] c = "device_name" -> "NULL"
       [] OTHER -> Null]

RowWithId(T, id) == CHOOSE r \in T : r["id"] = id

HasId(T, id) == \E r \in T : r["id"] = id

\* the row an upsert or update leaves: the columns sent in the request
\* overwrite, the others keep their value (or take the column default)
Written(T, id, cols) ==
  LET old == IF HasId(T, id) THEN RowWithId(T, id) ELSE ColumnDefault
  IN  [c \in Columns |-> IF c \in DOMAIN cols THEN cols[c] ELSE old[c]]

\* idx_activities_source_external_id: UNIQUE (source, external_id)
\* WHERE external_id IS NOT NULL
UniqueViolation(T, row) ==
  /\ row["external_id"] # <<>>
  /\ \E r \in T :
       /\ r["id"] # row["id"]
       /\ r["source"] = row["source"]
       /\ r["external_id"] = row["external_id"]

\* .upsert(cols, {onConflict: 'id'}): the table afterwards
Upsert(T, cols) ==
  {r \in T : r["id"] # cols["id"]} \cup {Written(T, cols["id"], cols)}

UpsertFails(T, cols) == UniqueViolation(T, Written(T, cols["id"], cols))

\* .update(cols).eq('id', id): no row with that id, no change
UpdateById(T, id, cols) ==
  IF HasId(T, id)
  THEN {r \in T : r["id"] # id} \cup {Written(T, id, cols)}
  ELSE T

\* a record without the fields that are undefined in the JavaScript object
\* (JSON.stringify drops them, so the request does not carry the column)
Defined(cols, undefinedKeys) ==
  [c \in DOMAIN cols \ undefinedKeys |-> cols[c]]

(***************************************************************************)
(* Provider payloads                                                       *)
(***************************************************************************)
StartOf(k) == 1000 * k
StravaDistance == 5000
StravaElapsed == 1800
StravaHeartRates == {Null, 140}

\* the Strava activity of workout k, as the listing and the detail call give it
StravaActivity(k, hr) ==
  [id |-> 100 + k, athlete |-> 1, start_date |-> StartOf(k),
   distance |-> StravaDistance, elapsed_time |-> StravaElapsed,
   average_heartrate |-> hr, external_id |-> <<"upload", k>>, workout |-> k]

\* another athlete's Strava activity that starts at the same time as workout k
OtherAthlete == 2
OtherAthleteActivity(k) ==
  [id |-> 300 + k, athlete |-> OtherAthlete, start_date |-> StartOf(k),
   distance |-> StravaDistance, elapsed_time |-> StravaElapsed,
   average_heartrate |-> Null, external_id |-> <<"upload", 10 + k>>,
   workout |-> 10 + k]

StravaActivities ==
  {StravaActivity(k, hr) : k \in Workouts, hr \in StravaHeartRates}
    \cup {OtherAthleteActivity(k) : k \in Workouts}

GarminStartOffsets == {120, 121}
GarminDistances == {Null, StravaDistance, StravaDistance + 100}
GarminDurations == {StravaElapsed, StravaElapsed + 60}
GarminHeartRates == {Null, 150}
GarminCadences == {Null, 170}
GarminDevices == {"NULL", "fenix"}

GarminSummariesOf(k) ==
  {[activityId |-> aid, summaryId |-> k,
    startTimeInSeconds |-> StartOf(k) + ds, durationInSeconds |-> du,
    distanceInMeters |-> di,
    averageHeartRateInBeatsPerMinute |-> hr,
    averageRunCadenceInStepsPerMinute |-> cad,
    deviceName |-> dev, workout |-> k] :
     aid \in {Null, 200 + k}, ds \in GarminStartOffsets,
     du \in GarminDurations, di \in GarminDistances, hr \in GarminHeartRates,
     cad \in GarminCadences, dev \in GarminDevices}

\* the measures of summary g that depart from a start 120 s after the
\* Strava activity's and from the Strava activity's distance and duration
Departures(k, g) ==
  {m \in {"start", "distance", "duration"} :
     \/ m = "start" /\ g.startTimeInSeconds # StartOf(k) + 120
     \/ m = "distance" /\ g.distanceInMeters # StravaDistance
     \/ m = "duration" /\ g.durationInSeconds # StravaElapsed}

\* The summaries followed: at most one of the three measures departs, a
\* summary names its device exactly when it carries a cadence, and a summary
\* with a departing measure carries a heart rate and no cadence.
Followed(k, g) ==
  /\ Cardinality(Departures(k, g)) <= 1
  /\ (g.averageRunCadenceInStepsPerMinute = Null) <=> (g.deviceName = "NULL")
  /\ Departures(k, g) # {}
       => /\ g.averageHeartRateInBeatsPerMinute # Null
          /\ g.averageRunCadenceInStepsPerMinute = Null

\* the Garmin summaries of workout k that the webhook may be sent
GarminActivitiesOf(k) ==
  {g \in GarminSummariesOf(k) : Followed(k, g)}

GarminActivities == UNION {GarminActivitiesOf(k) : k \in Workouts}

\* the athlete whose garmin_connected flag the webhook's lookup finds
GarminAthlete == 1

InitStore ==
  /\ activities = {}
  /\ now = 1
  /\ nStores = 0
  /\ lastStore = [path |-> "none", workout |-> 0, report |-> <<>>,
                  payload |-> <<>>, decision |-> "none", target |-> 0,
                  ok |-> FALSE]
  /\ ingested = {}

\* what a provider reported about a workout
Report(provider, k, start, distance, duration) ==
  [provider |-> provider, workout |-> k, start |-> start,
   distance |-> distance, duration |-> duration]
StravaReport(a) ==
  Report("strava", a.workout, a.start_date, a.distance, a.elapsed_time)
GarminReport(g) ==
  Report("garmin", g.workout, g.startTimeInSeconds, g.distanceInMeters,
         g.durationInSeconds)

\* bookkeeping of a delivery handled at time t; target is the id of the row
\* the handler wrote or tried to write
Stored(path, payload, report, decision, target, ok, t) ==
  /\ nStores' = nStores + 1
  /\ lastStore' = [path |-> path, workout |-> report.workout, report |-> report,
                   payload |-> payload, decision |-> decision,
                   target |-> target, ok |-> ok]
  /\ ingested' = IF ok THEN ingested \cup {report} ELSE ingested
  /\ now' = t

(***************************************************************************)
(* sync processor: storeActivity                                           *)
(***************************************************************************)
storeActivityData(a, t) ==
  Defined(
    [id |-> a.id, athlete_id |-> a.athlete, distance |-> a.distance,
     elapsed_time |-> a.elapsed_time, activity_date |-> a.start_date,
     average_heart_rate |-> a.average_heartrate,
     external_id |-> a.external_id, updated_at |-> t, workout |-> a.workout],
    IF a.average_heartrate = Null THEN {"average_heart_rate"} ELSE {})

\* t: Date.now() of the call; dbOk: the datastore accepts the request
storeActivity(a, t, dbOk) ==
  /\ nStores < MaxDeliveries
  /\ LET cols == storeActivityData(a, t)
         ok == dbOk /\ ~UpsertFails(activities, cols)
     IN  /\ activities' = IF ok THEN Upsert(activities, cols) ELSE activities
         /\ Stored("sync", a, StravaReport(a), "Upsert", cols["id"], ok, t)
  /\ UNCHANGED <<jobVars, tokenVars, syncVars, hookVars>>

(***************************************************************************)
(* Strava webhook: handleActivityCreate, the activity upsert               *)
(***************************************************************************)
\* undefined becomes null, so every column is sent
transformActivityData(athleteId, record) ==
  [id |-> record.id, athlete_id |-> athleteId,
   activity_date |-> record.start_date,
   elapsed_time |-> record.elapsed_time, distance |-> record.distance,
   average_heart_rate |-> IF Falsy(record.average_heartrate) THEN Null
                          ELSE record.average_heartrate,
   external_id |-> <<"id", record.id>>, workout |-> record.workout]

handleActivityCreate(a, t, dbOk) ==
  /\ nStores < MaxDeliveries
  /\ LET cols == transformActivityData(a.athlete, a)
         ok == dbOk /\ ~UpsertFails(activities, cols)
     IN  /\ activities' = IF ok THEN Upsert(activities, cols) ELSE activities
         /\ Stored("strava-webhook", a, StravaReport(a), "Upsert", cols["id"], ok, t)
  /\ UNCHANGED <<jobVars, tokenVars, syncVars, hookVars>>

(***************************************************************************)
(* Garmin webhook: checkForDuplicate, mergeGarminData, processActivity     *)
(***************************************************************************)
NotDuplicate == [isDuplicate |-> FALSE, existingId |-> 0]

\* .eq('athlete_id', ..).gte('activity_date', startMin)
\* .lte('activity_date', startMax).neq('source', 'garmin')
InTimeWindowAnyAthlete(T, athleteId, startTime) ==
  {r \in T :
     /\ r["activity_date"] # Null
     /\ r["activity_date"] >= startTime - TimeWindowSec
     /\ r["activity_date"] <= startTime + TimeWindowSec
     /\ r["source"] # "garmin"}

InTimeWindow(T, athleteId, startTime) ==
  {r \in T :
     /\ r["athlete_id"] = athleteId
     /\ r["activity_date"] # Null
     /\ r["activity_date"] >= startTime - TimeWindowSec
     /\ r["activity_date"] <= startTime + TimeWindowSec
     /\ r["source"] # "garmin"}

DistanceMatch(r, distance) ==
  \/ Falsy(distance)
  \/ Falsy(r["distance"])
  \/ Abs(r["distance"] - distance) < DistanceTolerance

\* a missing candidate duration makes the difference NaN, and NaN < 60 is false
DurationMatch(r, duration) ==
  \/ Falsy(r["elapsed_time"])
  \/ (duration # Null /\ Abs(r["elapsed_time"] - duration) < DurationTolerance)

\* The results the function can return: the loop returns the first matching
\* row in the order the datastore happens to give the rows.
checkForDuplicate(T, athleteId, startTime, distance, duration, queryOk) ==
  LET existing == IF queryOk /\ athleteId # Null
                  THEN InTimeWindow(T, athleteId, startTime) ELSE {}
      matches == {r \in existing :
                    DistanceMatch(r, distance) /\ DurationMatch(r, duration)}
  IN  IF matches = {} THEN {NotDuplicate}
      ELSE {[isDuplicate |-> TRUE, existingId |-> r["id"]] : r \in matches}

mergeUpdatesWithStart(g, t) ==
  [updated_at |-> t, activity_date |-> g.startTimeInSeconds, raw_data |-> <<g>>]

mergeUpdates(g, t) ==
  Defined(
    [updated_at |-> t,
     average_heart_rate |-> g.averageHeartRateInBeatsPerMinute,
     average_cadence |-> g.averageRunCadenceInStepsPerMinute,
     device_name |-> g.deviceName,
     raw_data |-> <<g>>],
    (IF Falsy(g.averageHeartRateInBeatsPerMinute) THEN {"average_heart_rate"} ELSE {})
      \cup (IF Falsy(g.averageRunCadenceInStepsPerMinute) THEN {"average_cadence"} ELSE {})
      \cup (IF g.deviceName = "NULL" THEN {"device_name"} ELSE {}))

mergeGarminData(T, existingActivityId, g, t) ==
  UpdateById(T, existingActivityId, mergeUpdates(g, t))

\* -Math.abs(activityData.activityId || Math.floor(Date.now() / 1000))
GarminUniqueId(g, t) ==
  0 - Abs(IF Falsy(g.activityId) THEN t ELSE g.activityId)

\* activityData.activityId?.toString() || activityData.summaryId
GarminExternalId(g) ==
  IF Falsy(g.activityId) THEN <<"summary", g.summaryId>> ELSE <<"id", g.activityId>>

garminActivityRow(g, athleteId, t) ==
  Defined(
    [id |-> GarminUniqueId(g, t), athlete_id |-> athleteId, source |-> "garmin",
     external_id |-> GarminExternalId(g),
     activity_date |-> g.startTimeInSeconds,
     elapsed_time |-> g.durationInSeconds,
     distance |-> g.distanceInMeters,
     average_heart_rate |-> g.averageHeartRateInBeatsPerMinute,
     average_cadence |-> g.averageRunCadenceInStepsPerMinute,
     device_name |-> g.deviceName,
     raw_data |-> <<g>>, updated_at |-> t, workout |-> g.workout],
    (IF g.distanceInMeters = Null THEN {"distance"} ELSE {})
      \cup (IF g.durationInSeconds = Null THEN {"elapsed_time"} ELSE {})
      \cup (IF g.averageHeartRateInBeatsPerMinute = Null
            THEN {"average_heart_rate"} ELSE {})
      \cup (IF g.averageRunCadenceInStepsPerMinute = Null
            THEN {"average_cadence"} ELSE {})
      \cup (IF g.deviceName = "NULL" THEN {"device_name"} ELSE {}))

\* queryOk: the duplicate lookup succeeds; dbOk: the write is accepted
processActivity(g, t, queryOk, dbOk) ==
  /\ nStores < MaxDeliveries
  /\ \E found \in checkForDuplicate(activities, GarminAthlete,
                                    g.startTimeInSeconds, g.distanceInMeters,
                                    g.durationInSeconds, queryOk) :
       IF found.isDuplicate /\ found.existingId # 0
       THEN /\ activities' = IF dbOk
                             THEN mergeGarminData(activities, found.existingId, g, t)
                             ELSE activities
            /\ Stored("garmin-webhook", g, GarminReport(g), "MergeInto",
                   found.existingId, dbOk, t)
       ELSE LET cols == garminActivityRow(g, GarminAthlete, t)
                ok == dbOk /\ ~UpsertFails(activities, cols)
            IN  /\ activities' = IF ok THEN Upsert(activities, cols) ELSE activities
                /\ Stored("garmin-webhook", g, GarminReport(g), "Insert",
                          cols["id"], ok, t)
  /\ UNCHANGED <<jobVars, tokenVars, syncVars, hookVars>>

(***************************************************************************)
(* Provider credentials and provider requests                              *)
(*                                                                         *)
(* processJob keeps the athlete's credential in strava_tokens; the Strava  *)
(* webhook and the direct sync-beta request keep it in athletes.  Tokens   *)
(* are numbered in the order the provider issues them.  One handler runs   *)
(* at a time; a provider call takes no time, the delay between two pages   *)
(* takes RateLimitDelay seconds.                                           *)
(***************************************************************************)
CredentialTables == {"strava_tokens", "athletes"}
FetchHandlers == {"processJob", "handleActivityCreate", "sync-beta"}
RequestKinds == {"activities", "activity", "athlete"}

\* seconds between two page requests of the processor's fetch
RateLimitDelay == 1
\* page limit of the direct sync-beta fetch
PageLimit == 100

IdleRun ==
  [handler |-> "none", pc |-> "idle", accessToken |-> 0, page |-> 0,
   expired |-> FALSE, stale |-> 0, n |-> 0]

InitToken ==
  /\ clock = 0
  /\ issued = <<TokenLife>>
  /\ tokens = [t \in CredentialTables |->
                 [access_token |-> 1, refresh_token |-> 1, expires_at |-> TokenLife]]
  /\ run = IdleRun
  /\ calls = <<>>

\* the provider's answer to a refresh request made now
TokenResponse ==
  [access_token |-> Len(issued) + 1, refresh_token |-> Len(issued) + 1,
   expires_at |-> clock + TokenLife]

RefreshCall(presented) ==
  [kind |-> "refresh", token |-> presented, at |-> clock, expires_at |-> 0]
StoreCall(data) ==
  [kind |-> "store", token |-> data.access_token, at |-> clock,
   expires_at |-> data.expires_at]
\* a provider request carrying access token tok, whose expiry is known to iss
RequestCall(kind, tok, iss) ==
  [kind |-> kind, token |-> tok, at |-> clock, expires_at |-> iss[tok]]

\* the credential row written before response.ok is tested
RefreshIntoBeforeCheck(table, presented, ok) ==
  [ok |-> ok,
   access_token |-> IF ok THEN TokenResponse.access_token ELSE 0,
   issued |-> Append(issued, TokenResponse.expires_at),
   tokens |-> [tokens EXCEPT ![table] = TokenResponse],
   calls |-> <<RefreshCall(presented), StoreCall(TokenResponse)>>]

\* POST /oauth/token followed by the update of the credential row in `table`
\* ok: the provider accepts the refresh token
RefreshInto(table, presented, ok) ==
  [ok |-> ok,
   access_token |-> IF ok THEN TokenResponse.access_token ELSE 0,
   issued |-> IF ok THEN Append(issued, TokenResponse.expires_at) ELSE issued,
   tokens |-> IF ok THEN [tokens EXCEPT ![table] = TokenResponse] ELSE tokens,
   calls |-> IF ok THEN <<RefreshCall(presented), StoreCall(TokenResponse)>>
                   ELSE <<RefreshCall(presented)>>]

refreshToken(presented, ok) == RefreshInto("strava_tokens", presented, ok)
refreshAccessToken(ok) ==
  RefreshInto("athletes", tokens["athletes"].refresh_token, ok)
refreshStravaToken(presented, ok) == RefreshInto("athletes", presented, ok)

\* a handler can start when no other is running
CanStart ==
  /\ run.pc \in {"idle", "done"}
  /\ run.n < MaxRuns

\* the run of handler h after its credential step; r is the refresh it made
\* (a record with ok |-> TRUE and no calls when it made none)
Started(h, row, r, thenPc) ==
  [handler |-> h, pc |-> IF r.ok THEN thenPc ELSE "done",
   accessToken |-> r.access_token, page |-> 1,
   expired |-> row.expires_at <= clock, stale |-> row.access_token,
   n |-> run.n + 1]

NoRefresh(row) ==
  [ok |-> TRUE, access_token |-> row.access_token, issued |-> issued,
   tokens |-> tokens, calls |-> <<>>]

\* processJob up to the call of fetchActivitiesFromStrava
processJobCredential(refreshOk) ==
  /\ CanStart
  /\ LET row == tokens["strava_tokens"]
         r == IF row.expires_at <= clock
              THEN refreshToken(row.refresh_token, refreshOk)
              ELSE NoRefresh(row)
     IN  /\ issued' = r.issued
         /\ tokens' = r.tokens
         /\ calls' = r.calls
         /\ run' = Started("processJob", row, r, "request")
  /\ UNCHANGED <<clock, jobVars, storeVars, syncVars, hookVars>>

\* one page request of the processor's fetch
\* respOk: the provider answers 2xx; more: the page is full and the cap on
\* the number of activities is not reached
fetchActivitiesFromStrava(respOk, more) ==
  /\ run.handler = "processJob"
  /\ run.pc = "request"
  /\ more => run.page < MaxPages
  /\ calls' = Append(calls, RequestCall("activities", run.accessToken, issued))
  /\ run' = IF respOk /\ more
            THEN [run EXCEPT !.pc = "sleep", !.page = @ + 1]
            ELSE [run EXCEPT !.pc = "done"]
  /\ UNCHANGED <<tokens, issued, clock, jobVars, storeVars, syncVars, hookVars>>

\* the wait between two pages of the processor's fetch
rateLimitDelay ==
  /\ run.pc = "sleep"
  /\ clock < MaxTime
  /\ clock' = clock + RateLimitDelay
  /\ run' = [run EXCEPT !.pc = "request"]
  /\ UNCHANGED <<tokens, issued, calls, jobVars, storeVars, syncVars, hookVars>>

\* the Strava webhook's create/activity path up to its two provider requests
handleActivityCreateFetch(refreshOk) ==
  /\ CanStart
  /\ LET row == tokens["athletes"]
         r == refreshAccessToken(refreshOk)
     IN  /\ issued' = r.issued
         /\ tokens' = r.tokens
         /\ calls' = IF r.ok
                     THEN r.calls \o
                          <<RequestCall("activity", r.access_token, r.issued),
                            RequestCall("athlete", r.access_token, r.issued)>>
                     ELSE r.calls
         /\ run' = Started("handleActivityCreate", row, r, "done")
  /\ UNCHANGED <<clock, jobVars, storeVars, syncVars, hookVars>>

\* the direct sync-beta request up to the call of fetchStravaActivities
syncBetaCredential(refreshOk) ==
  /\ CanStart
  /\ LET row == tokens["athletes"]
         r == IF row.expires_at # Null /\ row.expires_at <= clock
              THEN refreshStravaToken(row.refresh_token, refreshOk)
              ELSE NoRefresh(row)
     IN  /\ issued' = r.issued
         /\ tokens' = r.tokens
         /\ calls' = r.calls
         /\ run' = Started("sync-beta", row, r, "request")
  /\ UNCHANGED <<clock, jobVars, storeVars, syncVars, hookVars>>

\* one page request of the direct sync-beta fetch
\* more: the page is full and the limit is not reached
fetchStravaActivities(respOk, more) ==
  /\ run.handler = "sync-beta"
  /\ run.pc = "request"
  /\ more => run.page < MaxPages
  /\ calls' = Append(calls, RequestCall("activities", run.accessToken, issued))
  /\ run' = IF respOk /\ more /\ run.page + 1 <= PageLimit
            THEN [run EXCEPT !.page = @ + 1]
            ELSE [run EXCEPT !.pc = "done"]
  /\ UNCHANGED <<tokens, issued, clock, jobVars, storeVars, syncVars, hookVars>>

\* a second goes by while no handler runs
SecondPasses ==
  /\ run.pc \in {"idle", "done"}
  /\ clock < MaxTime
  /\ clock' = clock + 1
  /\ UNCHANGED <<tokens, issued, run, calls, jobVars, storeVars, syncVars, hookVars>>

(***************************************************************************)
(* Paginated fetch, activity by activity                                   *)
(*                                                                         *)
(* The provider has a listing of activities for the requested window; an   *)
(* activity is named by its position in the listing and a page is the run  *)
(* of positions it holds.  wire is the sequence of page requests and waits *)
(* of the fetch that runs.                                                 *)
(***************************************************************************)
perPage == 200
STRAVA_PAGE_SIZE == 100

\* a listing that has a full page for every page number
Endless == Null

\* sizes of the provider's listing, activity caps and failing pages followed
Listings(fn) ==
  IF fn = "processJob"
  THEN {0, 55, perPage, 3 * perPage, Endless}
  ELSE {0, 55, STRAVA_PAGE_SIZE, 3 * STRAVA_PAGE_SIZE,
        (PageLimit + 1) * STRAVA_PAGE_SIZE, Endless}
\* metadata.max_activities of a job made by sync-beta, or none
BetaLimit == 20
Caps == {Null, BetaLimit}
\* max_activities of a direct sync-beta request, or none (sync_all): the
\* request may name any number, such as one and a half pages
DirectLimits == Caps \cup {STRAVA_PAGE_SIZE + STRAVA_PAGE_SIZE \div 2}
FailPages == {0, 1, 2}
\* listing positions of the activities whose storeActivity throws
StoreFailures == {{}, {2}, {1, BetaLimit}}

\* GET /athlete/activities?page=p&per_page=n against a listing of M
ProviderPage(M, p, n) ==
  LET first == (p - 1) * n + 1
  IN  [first |-> first,
       n |-> IF M = Endless THEN n
             ELSE IF first > M THEN 0 ELSE Min(n, M - first + 1)]

NoItems == [first |-> 0, n |-> 0]

\* a page request with the provider's answer (ok is response.ok)
PageRequest(p, n, ok, resp) ==
  [kind |-> "page", page |-> p, per_page |-> n, ok |-> ok,
   resp |-> IF ok THEN resp ELSE NoItems]

\* await new Promise(resolve => setTimeout(resolve, 1000))
Wait ==
  [kind |-> "wait", page |-> 0, per_page |-> 0, ok |-> TRUE, resp |-> NoItems]

RECURSIVE Count(_)
\* allActivities.length
Count(pages) ==
  IF pages = <<>> THEN 0 ELSE Head(pages).n + Count(Tail(pages))

\* allActivities.push(...activities)
Push(pages, resp) == IF resp.n = 0 THEN pages ELSE Append(pages, resp)

RECURSIVE Slice(_, _)
\* allActivities.slice(0, k)
Slice(pages, k) ==
  IF pages = <<>> \/ k <= 0 THEN <<>>
  ELSE IF Head(pages).n <= k
       THEN <<Head(pages)>> \o Slice(Tail(pages), k - Head(pages).n)
       ELSE <<[first |-> Head(pages).first, n |-> k]>>

IdleSync ==
  [fn |-> "none", pc |-> "idle", listing |-> 0, cap |-> Null, failAt |-> 0,
   page |-> 0, got |-> <<>>, result |-> <<>>]

\* the loop variables of a fetch that has just been called
\* M: the provider's listing; failAt: the page answered with an error
FetchCall(fn, M, cap, failAt) ==
  [fn |-> fn,
   pc |-> IF fn = "sync-beta" /\ cap # Null /\ ~(0 < cap)
          THEN "fetched" ELSE "request",
   listing |-> M, cap |-> cap, failAt |-> failAt,
   page |-> 1, got |-> <<>>, result |-> <<>>]

\* a sync_jobs row as created, with the columns processJob writes
PendingJobRow ==
  [status |-> "pending", started_at |-> Null, completed_at |-> Null,
   error_message |-> "NULL", total_activities |-> 0,
   processed_activities |-> 0, failed_activities |-> 0]

\* before: the credential rows when processJob began
IdleJob ==
  [pc |-> "none", row |-> PendingJobRow, failing |-> {}, activities |-> <<>>,
   attempts |-> <<>>, processed |-> 0, failed |-> 0, stored |-> {},
   before |-> tokens]

InitSync ==
  /\ sync = IdleSync
  /\ wire = <<>>
  /\ job = IdleJob

NoFetchRuns ==
  /\ sync.pc \in {"idle", "fetched", "thrown"}
  /\ job.pc \in {"none", "done"}

\* the direct sync of sync-beta calls fetchStravaActivities with
\* max_activities, or with Infinity (here Null) when sync_all is set
syncBetaFetch(M, cap, failAt) ==
  /\ NoFetchRuns
  /\ sync' = FetchCall("sync-beta", M, cap, failAt)
  /\ wire' = <<>>
  /\ job' = IdleJob
  /\ UNCHANGED <<jobVars, storeVars, tokenVars, hookVars>>

RECURSIVE ItemsOf(_)
\* the activities of the pages, one by one
ItemsOf(pages) ==
  IF pages = <<>> THEN <<>>
  ELSE [i \in 1..Head(pages).n |-> Head(pages).first + i - 1]
         \o ItemsOf(Tail(pages))

\* the update that marks the job completed
JobCompleted(j) ==
  [j EXCEPT !.pc = "done",
            !.row = [@ EXCEPT !.status = "completed",
                              !.completed_at = clock,
                              !.total_activities = Len(j.activities),
                              !.processed_activities = j.processed,
                              !.failed_activities = j.failed]]

\* processJob after its fetch returned `result`: the store loop begins, or
\* the job is completed at once when there is nothing to store
JobFetched(j, result) ==
  LET fetched == [j EXCEPT !.pc = "storing", !.activities = ItemsOf(result)]
  IN  IF fetched.activities = <<>> THEN JobCompleted(fetched) ELSE fetched

\* a failed store left out of the counters
StoredNextUncounted(j) ==
  LET a == j.activities[Len(j.attempts) + 1]
      ok == a \notin j.failing
  IN  [j EXCEPT !.attempts = Append(@, a),
                !.processed = IF ok THEN @ + 1 ELSE @,
                !.stored = IF ok THEN @ \cup {a} ELSE @]

\* the body of for (const stravaActivity of activities) for the next
\* activity: try { await storeActivity; processed++ } catch { failed++ }
StoredNext(j) ==
  LET a == j.activities[Len(j.attempts) + 1]
      ok == a \notin j.failing
  IN  [j EXCEPT !.attempts = Append(@, a),
                !.processed = IF ok THEN @ + 1 ELSE @,
                !.failed = IF ok THEN @ ELSE @ + 1,
                !.stored = IF ok THEN @ \cup {a} ELSE @]

\* one iteration of the store loop of processJob, with the update that
\* completes the job after the last one
storeLoop ==
  /\ job.pc = "storing"
  /\ job' = IF Len(job.attempts) + 1 = Len(job.activities)
            THEN JobCompleted(StoredNext(job))
            ELSE StoredNext(job)
  /\ UNCHANGED <<sync, wire, jobVars, storeVars, tokenVars, hookVars>>

\* the catch block of processJob
JobFailed(j, message) ==
  [j EXCEPT !.pc = "done",
            !.row = [@ EXCEPT !.status = "failed",
                              !.completed_at = clock,
                              !.error_message = message]]

\* processJob up to its call of fetchActivitiesFromStrava
\* cap: metadata.max_activities || null; failing: the activities that
\* storeActivity will fail to store
processJob(M, cap, failing, failAt, refreshOk) ==
  /\ NoFetchRuns
  /\ LET row == tokens["strava_tokens"]
         r == IF row.expires_at <= clock
              THEN refreshToken(row.refresh_token, refreshOk)
              ELSE NoRefresh(row)
         began == [IdleJob EXCEPT
                     !.pc = "fetching",
                     !.row = [PendingJobRow EXCEPT !.status = "in_progress",
                                                   !.started_at = clock],
                     !.failing = failing]
     IN  /\ issued' = r.issued
         /\ tokens' = r.tokens
         /\ calls' = r.calls
         /\ IF r.ok
            THEN /\ job' = began
                 /\ sync' = FetchCall("processJob", M, cap, failAt)
            ELSE /\ job' = JobFailed(began, "Token refresh failed")
                 /\ sync' = IdleSync
  /\ wire' = <<>>
  /\ UNCHANGED <<clock, run, jobVars, storeVars, hookVars>>

\* the short-page test left out
ShortPageNever(n, size) == FALSE

\* activities.length < perPage
ShortPage(n, size) == n < size

\* one iteration of the while loop of fetchActivitiesFromStrava, with what
\* processJob does next when the fetch returns or throws
fetchActivitiesFromStravaLoop ==
  /\ sync.fn = "processJob"
  /\ sync.pc = "request"
  /\ sync.page <= MaxRequests
  /\ LET resp == ProviderPage(sync.listing, sync.page, perPage)
         request ==
           PageRequest(sync.page, perPage, sync.failAt # sync.page, resp)
         all == Push(sync.got, resp)
     IN  IF sync.failAt = sync.page
         THEN /\ wire' = Append(wire, request)
              /\ sync' = [sync EXCEPT !.pc = "thrown"]
              /\ job' = JobFailed(job, "Strava API error")
         ELSE IF resp.n = 0
         THEN /\ wire' = Append(wire, request)
              /\ sync' = [sync EXCEPT !.pc = "fetched", !.result = sync.got]
              /\ job' = JobFetched(job, sync.got)
         ELSE IF ~Falsy(sync.cap) /\ Count(all) >= sync.cap
         THEN /\ wire' = Append(wire, request)
              /\ sync' = [sync EXCEPT !.pc = "fetched", !.got = all,
                                      !.result = Slice(all, sync.cap)]
              /\ job' = JobFetched(job, Slice(all, sync.cap))
         ELSE IF ShortPage(resp.n, perPage)
         THEN /\ wire' = Append(wire, request)
              /\ sync' = [sync EXCEPT !.pc = "fetched", !.got = all,
                                      !.result = all]
              /\ job' = JobFetched(job, all)
         ELSE /\ wire' = wire \o <<request, Wait>>
              /\ sync' = [sync EXCEPT !.page = @ + 1, !.got = all]
              /\ job' = job
  /\ UNCHANGED <<jobVars, storeVars, tokenVars, hookVars>>

\* one iteration of the while loop of fetchStravaActivities
fetchStravaActivitiesLoop ==
  /\ sync.fn = "sync-beta"
  /\ sync.pc = "request"
  /\ sync.page <= MaxRequests
  /\ LET size == IF sync.cap = Null THEN STRAVA_PAGE_SIZE
                 ELSE Min(STRAVA_PAGE_SIZE, sync.cap - Count(sync.got))
         resp == ProviderPage(sync.listing, sync.page, size)
         request ==
           PageRequest(sync.page, size, sync.failAt # sync.page, resp)
         all == Push(sync.got, resp)
         hasMore == ~ShortPage(resp.n, STRAVA_PAGE_SIZE)
         page == IF hasMore THEN sync.page + 1 ELSE sync.page
     IN  /\ wire' = Append(wire, request)
         /\ IF sync.failAt = sync.page
            THEN sync' = [sync EXCEPT !.pc = "thrown"]
            ELSE IF page > PageLimit
                    \/ ~(hasMore /\ (sync.cap = Null \/ Count(all) < sync.cap))
            THEN sync' = [sync EXCEPT !.pc = "fetched", !.page = page,
                                      !.got = all, !.result = all]
            ELSE sync' = [sync EXCEPT !.page = page, !.got = all]
  /\ UNCHANGED <<job, jobVars, storeVars, tokenVars, hookVars>>

(***************************************************************************)
(* Strava webhook: the answer to a POST                                    *)
(***************************************************************************)
AspectTypes == {"create", "update", "delete", "other"}
ObjectTypes == {"activity", "athlete"}

\* the event of a POST: parses is whether req.json() yields an object; a
\* field that the body does not carry is Null ("NULL" for a string)
WebhookEvents ==
  [parses : BOOLEAN, aspect_type : AspectTypes, object_type : ObjectTypes,
   object_id : {Null, 7}, owner_id : {Null, 1}, authorized : {"false", "NULL"}]

\* what goes wrong while the event is processed
Failures ==
  {"none", "deauthorization update", "athlete check", "disconnected",
   "token refresh", "activity fetch", "athlete fetch", "save"}

Returned(value) == [threw |-> FALSE, value |-> value]
Threw == [threw |-> TRUE, value |-> "NULL"]

\* the failed update swallowed
DeauthorizationResultSwallowed(fail) == Returned("NULL")

\* handleDeauthorization: throws when the update of athletes fails
DeauthorizationResult(fail) ==
  IF fail = "deauthorization update" THEN Threw ELSE Returned("NULL")

\* handleActivityCreate of the webhook, by what fails in it
ActivityCreateResult(fail) ==
  IF fail = "athlete check" THEN Threw
  ELSE IF fail = "disconnected" THEN Returned("IGNORED_DISCONNECTED_USER")
  ELSE IF fail \in {"token refresh", "activity fetch", "athlete fetch", "save"}
       THEN Threw
  ELSE Returned("EVENT_RECEIVED")

Response(status, body) == [status |-> status, body |-> body]

\* every error answered as a server error
CaughtAsServerError == Response(500, "ERROR_LOGGED")

\* catch (error) { return new Response('ERROR_LOGGED', { status: 200 }) }
Caught == Response(200, "ERROR_LOGGED")

\* the try block of the POST branch of Deno.serve
PostResponse(e, fail) ==
  IF ~e.parses THEN Caught
  ELSE IF e.aspect_type = "update" /\ e.authorized = "false"
  THEN IF DeauthorizationResult(fail).threw THEN Caught
       ELSE Response(200, "DEAUTH_PROCESSED")
  ELSE IF e.aspect_type = "create" /\ e.object_type = "activity"
  THEN IF Falsy(e.object_id) \/ Falsy(e.owner_id)
       THEN Response(400, "Missing required fields")
       ELSE IF ActivityCreateResult(fail).threw THEN Caught
       ELSE Response(200, ActivityCreateResult(fail).value)
  ELSE IF e.aspect_type = "update" /\ e.object_type = "activity"
  THEN Response(200, "UPDATE_ACKNOWLEDGED")
  ELSE IF e.aspect_type = "delete" /\ e.object_type = "activity"
  THEN Response(200, "DELETE_ACKNOWLEDGED")
  ELSE Response(200, "EVENT_ACKNOWLEDGED")

NoPost ==
  [delivered |-> FALSE,
   event |-> [parses |-> FALSE, aspect_type |-> "other",
              object_type |-> "athlete", object_id |-> Null,
              owner_id |-> Null, authorized |-> "NULL"],
   fail |-> "none", response |-> Response(0, "NULL")]

InitPost == post = NoPost

\* a POST is delivered and answered
stravaWebhookPost(e, fail) ==
  /\ post' = [delivered |-> TRUE, event |-> e, fail |-> fail,
              response |-> PostResponse(e, fail)]
  /\ UNCHANGED <<athlete, handler, verify>>
  /\ UNCHANGED <<jobVars, storeVars, tokenVars, syncVars>>

NextWebhook ==
  \E e \in WebhookEvents : \E fail \in Failures : stravaWebhookPost(e, fail)

(***************************************************************************)
(* Strava webhook, step by step: one athlete's row of athletes, the        *)
(* create/activity handler in flight, deauthorization and verification     *)
(***************************************************************************)
\* the row of athletes as the OAuth handshake leaves it; credentials are
\* numbered in the order the provider issues them
ConnectedAthlete ==
  [strava_connected |-> TRUE, strava_disconnected_at |-> Null,
   access_token |-> 1, refresh_token |-> 1, token_expires_at |-> 1]

\* effects: what the handler has done so far besides reading athletes
IdleHandler ==
  [pc |-> "idle", refresh_token |-> Null, accessToken |-> Null,
   effects |-> <<>>, n |-> 0]

NoVerification ==
  [requested |-> FALSE, configured |-> "NULL", mode |-> "NULL",
   token |-> "NULL", challenge |-> "NULL", response |-> Response(0, "NULL")]

InitHookSteps ==
  /\ athlete = ConnectedAthlete
  /\ handler = IdleHandler
  /\ verify = NoVerification

CreateEvent ==
  [parses |-> TRUE, aspect_type |-> "create", object_type |-> "activity",
   object_id |-> 7, owner_id |-> 1, authorized |-> "NULL"]

DeauthorizationEvent ==
  [parses |-> TRUE, aspect_type |-> "update", object_type |-> "athlete",
   object_id |-> 1, owner_id |-> 1, authorized |-> "false"]

\* the POST with event e has been answered; fail is what went wrong in it
Answered(e, fail) ==
  [delivered |-> TRUE, event |-> e, fail |-> fail,
   response |-> PostResponse(e, fail)]

\* the update of handleDeauthorization
Deauthorized(row, t) ==
  [row EXCEPT !.strava_connected = FALSE, !.strava_disconnected_at = t,
              !.access_token = Null, !.refresh_token = Null,
              !.token_expires_at = Null]

\* POST of an update event with updates.authorized = 'false'
\* dbOk: the update of athletes succeeds
handleDeauthorization(dbOk) ==
  /\ athlete' = IF dbOk THEN Deauthorized(athlete, 1) ELSE athlete
  /\ post' = Answered(DeauthorizationEvent,
                      IF dbOk THEN "none" ELSE "deauthorization update")
  /\ UNCHANGED <<handler, verify, jobVars, storeVars, tokenVars, syncVars>>

\* the connection test left out
IgnoresEventNever(row) == FALSE

\* if (!athlete || !athlete.strava_connected)
IgnoresEvent(row) == ~row.strava_connected

\* the handler ends with the answer to its POST
Ends(h) == [h EXCEPT !.pc = "idle"]

\* POST of a create/activity event: handleActivityCreate up to its test of
\* strava_connected.  checkOk: the select of the athlete's row succeeds
checkAthleteConnected(checkOk) ==
  /\ handler.pc = "idle"
  /\ handler.n < MaxDeliveries
  /\ LET began == [IdleHandler EXCEPT !.n = handler.n + 1]
     IN  IF ~checkOk
         THEN /\ handler' = began
              /\ post' = Answered(CreateEvent, "athlete check")
         ELSE IF IgnoresEvent(athlete)
         THEN /\ handler' = began
              /\ post' = Answered(CreateEvent, "disconnected")
         ELSE /\ handler' = [began EXCEPT !.pc = "read token"]
              /\ post' = post
  /\ UNCHANGED <<athlete, verify, jobVars, storeVars, tokenVars, syncVars>>

\* refreshAccessToken: the select of the stored refresh token
refreshAccessTokenRead(fetchOk) ==
  /\ handler.pc = "read token"
  /\ IF ~fetchOk \/ athlete.refresh_token = Null
     THEN /\ handler' = Ends(handler)
          /\ post' = Answered(CreateEvent, "token refresh")
     ELSE /\ handler' = [handler EXCEPT !.pc = "token request",
                                        !.refresh_token = athlete.refresh_token]
          /\ post' = post
  /\ UNCHANGED <<athlete, verify, jobVars, storeVars, tokenVars, syncVars>>

\* refreshAccessToken: POST /oauth/token with the refresh token read
refreshAccessTokenRequest(ok) ==
  /\ handler.pc = "token request"
  /\ IF ok
     THEN /\ handler' = [handler EXCEPT
                           !.pc = "token update",
                           !.accessToken = handler.refresh_token + 1,
                           !.effects = Append(@, "token request")]
          /\ post' = post
     ELSE /\ handler' = [Ends(handler) EXCEPT
                           !.effects = Append(@, "token request")]
          /\ post' = Answered(CreateEvent, "token refresh")
  /\ UNCHANGED <<athlete, verify, jobVars, storeVars, tokenVars, syncVars>>

\* the update of refreshAccessToken, keyed by the athlete's id alone
Refreshed(row, token) ==
  [row EXCEPT !.access_token = token, !.refresh_token = token,
              !.token_expires_at = token]

\* refreshAccessToken: the new credential is stored
refreshAccessTokenUpdate ==
  /\ handler.pc = "token update"
  /\ athlete' = Refreshed(athlete, handler.accessToken)
  /\ handler' = [handler EXCEPT !.pc = "fetch",
                                !.effects = Append(@, "athletes token update")]
  /\ UNCHANGED <<post, verify, jobVars, storeVars, tokenVars, syncVars>>

\* the two provider requests of handleActivityCreate
fetchActivityAndAthlete(activityOk, athleteOk) ==
  /\ handler.pc = "fetch"
  /\ LET h == [handler EXCEPT
                 !.effects = @ \o <<"activity request", "athlete request">>]
     IN  IF ~activityOk
         THEN /\ handler' = Ends(h)
              /\ post' = Answered(CreateEvent, "activity fetch")
         ELSE IF ~athleteOk
         THEN /\ handler' = Ends(h)
              /\ post' = Answered(CreateEvent, "athlete fetch")
         ELSE /\ handler' = [h EXCEPT !.pc = "save"]
              /\ post' = post
  /\ UNCHANGED <<athlete, verify, jobVars, storeVars, tokenVars, syncVars>>

\* the two upserts of handleActivityCreate and the notification after them;
\* the upsert of athletes carries profile columns only
saveActivityAndAthlete(dbOk) ==
  /\ handler.pc = "save"
  /\ LET h == [handler EXCEPT
                 !.effects = @ \o <<"activities upsert", "athletes upsert">>]
     IN  IF ~dbOk
         THEN /\ handler' = Ends(h)
              /\ post' = Answered(CreateEvent, "save")
         ELSE /\ handler' = [Ends(h) EXCEPT
                               !.effects = Append(@, "notification")]
              /\ post' = Answered(CreateEvent, "none")
  /\ UNCHANGED <<athlete, verify, jobVars, storeVars, tokenVars, syncVars>>

VerifySecret == "s3cret"
Modes == {"subscribe", "unsubscribe", "NULL"}
VerifyTokens == {VerifySecret, "guess", "NULL"}
Challenges == {"c1", "c2", "NULL"}

\* JSON.stringify({ 'hub.challenge': challenge })
ChallengeBody(challenge) == <<"hub.challenge", challenge>>

\* the mode left out of the test
GetResponseAnyMode(configured, mode, token, challenge) ==
  IF configured = "NULL" THEN Response(500, "Server configuration error")
  ELSE IF token = configured
  THEN Response(200, ChallengeBody(challenge))
  ELSE Response(403, "Forbidden")

\* the GET branch of Deno.serve
GetResponse(configured, mode, token, challenge) ==
  IF configured = "NULL" THEN Response(500, "Server configuration error")
  ELSE IF mode = "subscribe" /\ token = configured
  THEN Response(200, ChallengeBody(challenge))
  ELSE Response(403, "Forbidden")

\* GET: the provider's verification of the subscription
\* configured: STRAVA_VERIFY_TOKEN of the deployment
stravaWebhookGet(configured, mode, token, challenge) ==
  /\ verify' = [requested |-> TRUE, configured |-> configured, mode |-> mode,
                token |-> token, challenge |-> challenge,
                response |-> GetResponse(configured, mode, token, challenge)]
  /\ UNCHANGED <<post, athlete, handler, jobVars, storeVars, tokenVars, syncVars>>

NextHook ==
  \/ \E dbOk \in BOOLEAN : handleDeauthorization(dbOk)
  \/ \E checkOk \in BOOLEAN : checkAthleteConnected(checkOk)
  \/ \E fetchOk \in BOOLEAN : refreshAccessTokenRead(fetchOk)
  \/ \E ok \in BOOLEAN : refreshAccessTokenRequest(ok)
  \/ refreshAccessTokenUpdate
  \/ \E activityOk \in BOOLEAN : \E athleteOk \in BOOLEAN :
       fetchActivityAndAthlete(activityOk, athleteOk)
  \/ \E dbOk \in BOOLEAN : saveActivityAndAthlete(dbOk)
  \/ \E configured \in {"NULL", VerifySecret} : \E mode \in Modes :
       \E token \in VerifyTokens : \E challenge \in Challenges :
         stravaWebhookGet(configured, mode, token, challenge)

InitHook == InitPost /\ InitHookSteps

Init == InitJobs /\ InitStore /\ InitToken /\ InitSync /\ InitHook

Next ==
  \/ CreateSyncJob
  \/ \E w \in Workers : SelectPendingJobs(w)
  \/ \E w \in Workers : MarkInProgress(w)
  \/ \E w \in Workers : \E ok \in BOOLEAN : FinishJob(w, ok)
  \/ \E w \in Workers : WorkerCrash(w)
  \/ MinutesPass
  \/ reset_stuck_sync_jobs

Spec == Init /\ [][Next]_vars

\* the job engine together with the daily retention sweep
NextRetention ==
  \/ Next
  \/ DaysPass
  \/ cleanup_old_sync_jobs

SpecRetention == Init /\ [][NextRetention]_vars

NextStore ==
  \/ \E a \in StravaActivities : \E dt \in Gaps : \E dbOk \in BOOLEAN :
       storeActivity(a, now + dt, dbOk)
  \/ \E a \in StravaActivities : \E dt \in Gaps : \E dbOk \in BOOLEAN :
       handleActivityCreate(a, now + dt, dbOk)
  \/ \E g \in GarminActivities : \E dt \in Gaps :
       \E queryOk \in BOOLEAN : \E dbOk \in BOOLEAN :
         processActivity(g, now + dt, queryOk, dbOk)

SpecStore == Init /\ [][NextStore]_vars

NextToken ==
  \/ \E refreshOk \in BOOLEAN : processJobCredential(refreshOk)
  \/ \E respOk \in BOOLEAN : \E more \in BOOLEAN :
       fetchActivitiesFromStrava(respOk, more)
  \/ rateLimitDelay
  \/ \E refreshOk \in BOOLEAN : handleActivityCreateFetch(refreshOk)
  \/ \E refreshOk \in BOOLEAN : syncBetaCredential(refreshOk)
  \/ \E respOk \in BOOLEAN : \E more \in BOOLEAN :
       fetchStravaActivities(respOk, more)
  \/ SecondPasses

SpecToken == Init /\ [][NextToken]_vars

\* a second goes by between two fetches
TimeBetweenFetches == NoFetchRuns /\ SecondPasses

(***************************************************************************)
(* One processor tick over a queue that already holds rows                 *)
(***************************************************************************)
\* rows of sync_jobs when the tick begins: more than one batch
QueueLength == BatchLimit + MaxJobs
QueueStatuses == {"pending", "in_progress", "completed"}
TickWorker == 1

\* a row that has come to `status` since it was inserted
ExistingRow(status) ==
  IF status = "pending" THEN NewJobRow
  ELSE IF status = "in_progress" THEN MarkedInProgress(NewJobRow)
  ELSE MarkedCompleted(MarkedInProgress(NewJobRow))

InitTick ==
  /\ jobs \in [1..QueueLength -> {ExistingRow(st) : st \in QueueStatuses}]
  /\ nextJob = QueueLength
  /\ proc = [w \in Workers |-> IdleProc]
  /\ crashes = 0
  /\ InitStore /\ InitToken /\ InitSync /\ InitHook

NextTick ==
  \/ SelectPendingJobs(TickWorker)
  \/ MarkInProgress(TickWorker)
  \/ \E ok \in BOOLEAN : FinishJob(TickWorker, ok)

SpecTick == InitTick /\ [][NextTick]_vars

\* deliveries of the Garmin webhook followed against a filled table
MaxMatches == 1

\* a Strava activity of the athlete that starts 60 s after workout k and has
\* neither a distance nor an elapsed time
UnmeasuredActivity(k) ==
  [id |-> 500 + k, athlete |-> GarminAthlete, start_date |-> StartOf(k) + 60,
   distance |-> Null, elapsed_time |-> Null, average_heartrate |-> Null,
   external_id |-> <<"upload", 20 + k>>, workout |-> 20 + k]

\* the rows a sync job has stored for the activities of A
SyncedRows(A) == {Written({}, a.id, storeActivityData(a, 1)) : a \in A}

StoredBefore ==
  {StravaActivity(k, Null) : k \in Workouts}
    \cup {UnmeasuredActivity(k) : k \in Workouts}
    \cup {OtherAthleteActivity(k) : k \in Workouts}

\* the summaries delivered: the JSON body is not validated, so the distance
\* and the duration can each be absent
MatchSummaries ==
  {[activityId |-> 200 + k, summaryId |-> k,
    startTimeInSeconds |-> StartOf(k) + ds, durationInSeconds |-> du,
    distanceInMeters |-> di,
    averageHeartRateInBeatsPerMinute |-> 150,
    averageRunCadenceInStepsPerMinute |-> Null,
    deviceName |-> "NULL", workout |-> k] :
     k \in Workouts, ds \in GarminStartOffsets,
     du \in GarminDurations \cup {Null}, di \in GarminDistances}

InitMatch ==
  /\ InitJobs /\ InitToken /\ InitSync /\ InitHook
  /\ activities \in {SyncedRows(A) : A \in SUBSET StoredBefore}
  /\ now = 1
  /\ nStores = 0
  /\ lastStore = [path |-> "none", workout |-> 0, report |-> <<>>,
                  payload |-> <<>>, decision |-> "none", target |-> 0,
                  ok |-> FALSE]
  /\ ingested = {StravaReport(a) : a \in {b \in StoredBefore :
                                            HasId(activities, b.id)}}

NextMatch ==
  \E g \in MatchSummaries : \E dt \in Gaps :
    \E queryOk \in BOOLEAN : \E dbOk \in BOOLEAN :
      nStores < MaxMatches /\ processActivity(g, now + dt, queryOk, dbOk)

SpecMatch == InitMatch /\ [][NextMatch]_vars

SpecWebhook == Init /\ [][NextWebhook]_vars

SpecHook == Init /\ [][NextHook]_vars

NextFetch ==
  \/ \E M \in Listings("processJob") : \E cap \in Caps :
       \E failing \in StoreFailures : \E failAt \in FailPages :
         \E refreshOk \in BOOLEAN : processJob(M, cap, failing, failAt, refreshOk)
  \/ \E M \in Listings("sync-beta") : \E cap \in DirectLimits :
       \E failAt \in FailPages : syncBetaFetch(M, cap, failAt)
  \/ fetchActivitiesFromStravaLoop
  \/ storeLoop
  \/ fetchStravaActivitiesLoop
  \/ TimeBetweenFetches

SpecFetch == Init /\ [][NextFetch]_vars

\* pg_cron runs the processor and the staleness sweep again and again, time
\* passes, and an invocation that is not killed goes on to its next step.
FairSpec ==
  /\ Spec
  /\ WF_vars(MinutesPass)
  /\ WF_vars(reset_stuck_sync_jobs)
  /\ \A w \in Workers :
       /\ WF_vars(SelectPendingJobs(w))
       /\ WF_vars(MarkInProgress(w))
       /\ WF_vars(\E ok \in BOOLEAN : FinishJob(w, ok))

\* the same, with the retention sweep that pg_cron runs every day
FairRetention ==
  /\ SpecRetention
  /\ WF_vars(MinutesPass)
  /\ WF_vars(reset_stuck_sync_jobs)
  /\ \A w \in Workers :
       /\ WF_vars(SelectPendingJobs(w))
       /\ WF_vars(MarkInProgress(w))
       /\ WF_vars(\E ok \in BOOLEAN : FinishJob(w, ok))
  /\ WF_vars(DaysPass)
  /\ WF_vars(cleanup_old_sync_jobs)

(***************************************************************************)
(* Claims about the sync job engine                                        *)
(***************************************************************************)
Live(row) == row.status # "absent"

StatusChanges ==
  {<<"pending", "in_progress">>, <<"in_progress", "completed">>,
   <<"in_progress", "failed">>, <<"in_progress", "pending">>}

\* C2: every change of a job's status is pending->in_progress,
\* in_progress->completed, in_progress->failed or in_progress->pending, so a
\* completed or failed job never changes status again.
C2_OnlyStateMachineChanges ==
  [][\A j \in JobIds :
       (Live(jobs[j]) /\ Live(jobs'[j]) /\ jobs'[j].status # jobs[j].status)
         => <<jobs[j].status, jobs'[j].status>> \in StatusChanges]_vars

\* C3: a claim takes effect only if the job is still pending: an invocation
\* goes on to fetch-and-store a job only if the job was pending when it
\* claimed it.
C3_ClaimOnlyIfPending ==
  [][\A w \in Workers :
       (proc[w].pc = "claim" /\ proc'[w].pc = "run")
         => jobs[Head(proc[w].queue)].status = "pending"]_vars

\* what one run of the staleness sweep may do to one row
C4RowEffect(old, new) ==
  IF old.status = "in_progress" /\ old.started_ago # Null
       /\ old.started_ago > StaleMinutes
  THEN IF old.retry_count < MaxRetry
       THEN new.status = "pending" /\ new.retry_count = old.retry_count + 1
       ELSE new.status = "failed" /\ new.retry_count = old.retry_count
  ELSE new = old

\* C4: a run of the staleness sweep changes exactly the in_progress jobs
\* started more than 30 minutes ago: retry_count < 3 gives pending with
\* retry_count + 1, retry_count >= 3 gives failed; no other job changes and
\* no job is both reset and failed by one run.
C4_SweepEffect ==
  [][reset_stuck_sync_jobs
       => \A j \in JobIds : C4RowEffect(jobs[j], jobs'[j])]_vars

\* a run of the sweep has failed a job that it had reset three times before
C4_Witness ==
  \E j \in JobIds :
    /\ jobs[j].status = "failed"
    /\ jobs[j].error_message = "retry_exceeded"
    /\ jobs[j].retry_count = MaxRetry

C6_RetryBounded ==
  /\ [](\A j \in JobIds : jobs[j].retry_count <= 3)
  /\ [][\A j \in JobIds :
          (Live(jobs[j]) /\ Live(jobs'[j])
             /\ jobs'[j].retry_count # jobs[j].retry_count)
            => /\ jobs'[j].retry_count = jobs[j].retry_count + 1
               /\ jobs[j].status = "in_progress"
               /\ jobs'[j].status = "pending"
               /\ jobs'[j].error_message = "timed_out_reset"]_vars

\* a job that was reset three times is claimed for a fourth attempt
C6_Witness ==
  \E j \in JobIds :
    jobs[j].retry_count = 3 /\ jobs[j].status = "in_progress"

(***************************************************************************)
(* Claims about the activities table                                       *)
(***************************************************************************)
\* two reports are of the same workout within the tolerances of section 4.3
WithinTolerance(s, g) ==
  /\ s.workout = g.workout
  /\ Abs(s.start - g.start) <= TimeWindowSec
  /\ s.distance # Null /\ g.distance # Null
  /\ Abs(s.distance - g.distance) <= DistanceTolerance
  /\ s.duration # Null /\ g.duration # Null
  /\ Abs(s.duration - g.duration) <= DurationTolerance

RowsOfWorkout(T, k) == {r \in T : r["workout"] = k}

\* C1: once a workout's Strava report and its Garmin report (start times
\* within 120 s, distances within 100 m, durations within 60 s) have both
\* been ingested, in either order and by whichever path, the activities
\* table holds exactly one row for that workout.
C1_OneRowPerWorkout ==
  \A s \in ingested : \A g \in ingested :
    (s.provider = "strava" /\ g.provider = "garmin" /\ WithinTolerance(s, g))
      => Cardinality(RowsOfWorkout(activities, s.workout)) = 1

\* the rows that hold a provider's activity
RowsOfStrava(T, a) == {r \in T : r["id"] = a.id}
RowsOfGarmin(T, g) ==
  {r \in T : r["source"] = "garmin" /\ r["external_id"] = GarminExternalId(g)}

\* the write of columns cols updated the one row the activity had
RepersistEffect(after, cols) ==
  /\ Cardinality(activities') = Cardinality(activities)
  /\ Cardinality(after) = 1
  /\ \A r \in after : \A c \in DOMAIN cols \ {"id"} : r[c] = cols[c]

\* C9: persisting a provider activity that already has its row (a re-sync,
\* a webhook delivery followed by a sync job, a repeated webhook delivery)
\* leaves exactly one row for it: the write updates that row and the number
\* of rows of activities does not change.
C9_RepersistUpdatesTheRow ==
  [][/\ \A a \in StravaActivities : \A dt \in Gaps :
          (storeActivity(a, now + dt, TRUE) /\ RowsOfStrava(activities, a) # {})
            => RepersistEffect(RowsOfStrava(activities', a),
                               storeActivityData(a, now + dt))
     /\ \A a \in StravaActivities : \A dt \in Gaps :
          (handleActivityCreate(a, now + dt, TRUE)
             /\ RowsOfStrava(activities, a) # {})
            => RepersistEffect(RowsOfStrava(activities', a),
                               transformActivityData(a.athlete, a))
     /\ \A g \in GarminActivities : \A dt \in Gaps : \A queryOk \in BOOLEAN :
          (processActivity(g, now + dt, queryOk, TRUE)
             /\ RowsOfGarmin(activities, g) # {})
            => RepersistEffect(RowsOfGarmin(activities', g),
                               garminActivityRow(g, GarminAthlete, now + dt))
    ]_vars

\* a stored activity of the athlete from another source within the three
\* inclusive bounds of the candidate
TolerantMatch(T, g) ==
  \E r \in T :
    /\ r["athlete_id"] = GarminAthlete
    /\ r["source"] # "garmin"
    /\ r["activity_date"] # Null
    /\ Abs(r["activity_date"] - g.startTimeInSeconds) <= TimeWindowSec
    /\ r["distance"] # Null /\ g.distanceInMeters # Null
    /\ Abs(r["distance"] - g.distanceInMeters) <= DistanceTolerance
    /\ r["elapsed_time"] # Null /\ g.durationInSeconds # Null
    /\ Abs(r["elapsed_time"] - g.durationInSeconds) <= DurationTolerance

\* C10: the reconciler chooses MergeInto, never Insert, whenever the athlete
\* has a stored activity from a different source whose start time is at most
\* 120 s, whose distance is at most 100 m and whose elapsed duration is at
\* most 60 s from the candidate's (bounds inclusive); the lookup of the
\* stored activities is taken to succeed.
C10_MergeWithinInclusiveBounds ==
  [][\A g \in GarminActivities : \A dt \in Gaps : \A dbOk \in BOOLEAN :
       (processActivity(g, now + dt, TRUE, dbOk) /\ TolerantMatch(activities, g))
         => lastStore'.decision = "MergeInto"]_vars

\* the stored activities that may be matched with candidate g: those of the
\* athlete, from another source, that start within the time window of g
MatchCandidates(T, c) ==
  {r \in T :
     /\ r["athlete_id"] = GarminAthlete
     /\ r["source"] # c.provider
     /\ r["activity_date"] # Null
     /\ Abs(r["activity_date"] - c.start) <= TimeWindowSec}

\* the step is the Garmin webhook's handling of a delivery
Reconciles == nStores' = nStores + 1 /\ lastStore'.path = "garmin-webhook"

\* C11: the reconciler chooses Insert whenever no stored activity of the same
\* athlete from a different source starts within 120 s of the candidate;
\* a row of the candidate's own source or of another athlete is never the
\* row merged into.
C11_InsertWithoutCandidate ==
  [][Reconciles
       => /\ MatchCandidates(activities, lastStore'.report) = {}
               => lastStore'.decision = "Insert"
          /\ lastStore'.decision = "MergeInto"
               => \E r \in MatchCandidates(activities, lastStore'.report) :
                    r["id"] = lastStore'.target]_vars

\* a candidate was inserted although another athlete's Strava activity
\* starts within its time window
C11_Witness ==
  /\ lastStore.path = "garmin-webhook"
  /\ lastStore.decision = "Insert"
  /\ lastStore.ok
  /\ \E r \in activities :
       /\ r["id"] = lastStore.target
       /\ \E o \in activities :
            /\ o["athlete_id"] = OtherAthlete
            /\ o["source"] # "garmin"
            /\ Abs(o["activity_date"] - r["activity_date"]) <= TimeWindowSec

\* the columns a merge must leave as they are
MergeKept ==
  {"id", "athlete_id", "source", "external_id", "activity_date", "distance",
   "elapsed_time", "workout"}

\* what a merge of summary g at time t makes of row r
MergedRow(r, g, t) ==
  [c \in Columns |->
     CASE c = "average_heart_rate" ->
            IF g.averageHeartRateInBeatsPerMinute # Null
            THEN g.averageHeartRateInBeatsPerMinute ELSE r[c]
       [] c = "average_cadence" ->
            IF g.averageRunCadenceInStepsPerMinute # Null
            THEN g.averageRunCadenceInStepsPerMinute ELSE r[c]
       [] c = "device_name" -> IF g.deviceName # "NULL" THEN g.deviceName ELSE r[c]
       [] c = "raw_data" -> <<g>>
       [] c = "updated_at" -> t
       [] OTHER -> r[c]]

\* C12: a merge creates no row and leaves the existing row's id, source,
\* start time, distance and duration as they were; it writes the candidate's
\* heart rate, cadence and device name where the candidate provides them,
\* stores the candidate's raw payload and always sets updated_at; no other
\* row changes.
C12_MergeFrame ==
  [][(Reconciles /\ lastStore'.decision = "MergeInto" /\ lastStore'.ok)
       => \E r \in activities :
            /\ r["id"] = lastStore'.target
            /\ activities' = (activities \ {r})
                               \cup {MergedRow(r, lastStore'.payload, now')}
            /\ Cardinality(activities') = Cardinality(activities)
            /\ \A q \in activities' :
                 q["id"] = r["id"] => \A c \in MergeKept : q[c] = r[c]]_vars

\* a summary with a heart rate and no cadence was merged into a Strava row
C12_Witness ==
  /\ lastStore.decision = "MergeInto"
  /\ lastStore.ok
  /\ \E r \in activities :
       /\ r["id"] = lastStore.target
       /\ r["source"] = "strava"
       /\ r["raw_data"] = <<lastStore.payload>>
       /\ r["average_heart_rate"] = 150
       /\ r["average_cadence"] = Null
       /\ r["distance"] = StravaDistance

(***************************************************************************)
(* Claims about the credential and the provider requests                   *)
(***************************************************************************)
Refreshes == {i \in DOMAIN calls : calls[i].kind = "refresh"}
Stores == {i \in DOMAIN calls : calls[i].kind = "store"}
Requests == {i \in DOMAIN calls : calls[i].kind \in RequestKinds}

\* the run of handler h refreshes exactly when it found an expired credential
RefreshOnDemand(h) ==
  run.handler = h =>
    IF run.expired
    THEN Requests # {} =>
           /\ Cardinality(Refreshes) = 1
           /\ Cardinality(Stores) = 1
           /\ \A r \in Refreshes : \A s \in Stores : \A q \in Requests :
                /\ r < s
                /\ s < q
                /\ calls[q].token = calls[s].token
                /\ calls[q].token # run.stale
                /\ tokens[IF h = "processJob" THEN "strava_tokens" ELSE "athletes"]
                     .access_token = calls[s].token
    ELSE Refreshes = {}

\* C7: a handler that finds the stored credential with expiry <= now makes
\* exactly one refresh call before its first activity request, writes the
\* new pair to the credential store before that request, and sends every
\* activity request with the refreshed access token, never the stale one;
\* a handler that finds expiry > now makes no refresh call.
C7_RefreshExactlyWhenExpired == \A h \in FetchHandlers : RefreshOnDemand(h)

\* what C7 says, of the handlers that test the expiry before they fetch
RefreshOnDemandWhereTested ==
  RefreshOnDemand("processJob") /\ RefreshOnDemand("sync-beta")

\* processJob found an expired credential, refreshed and fetched two pages
RefreshOnDemandWitness ==
  /\ run.handler = "processJob"
  /\ run.expired
  /\ Cardinality(Requests) = 2

\* C8: no provider request, be it a page of a job's fetch or a webhook's
\* single-activity fetch, carries an access token whose expiry is at or
\* before the time of the request.
C8_NoRequestWithExpiredToken ==
  \A q \in Requests : calls[q].expires_at > calls[q].at

(***************************************************************************)
(* Pagination                                                              *)
(***************************************************************************)
PageRequests == SelectSeq(wire, LAMBDA e : e.kind = "page")

\* the page size a fetch function asks for when no cap shortens it
PageSizeOf(fn) == IF fn = "processJob" THEN perPage ELSE STRAVA_PAGE_SIZE

RECURSIVE Concatenation(_)
\* the items of the received pages, in the order of the requests
Concatenation(reqs) ==
  IF reqs = <<>> THEN <<>>
  ELSE IF Head(reqs).resp.n = 0 THEN Concatenation(Tail(reqs))
       ELSE <<Head(reqs).resp>> \o Concatenation(Tail(reqs))

\* pages 1, 2, 3, ... in ascending order, each of the fixed size, every
\* page before the last one full
AscendingFullPages ==
  \A i \in 1..Len(PageRequests) :
    /\ PageRequests[i].page = i
    /\ PageRequests[i].per_page = PageSizeOf(sync.fn)
    /\ i < Len(PageRequests) => PageRequests[i].resp.n = PageSizeOf(sync.fn)

Uncapped == sync.fn # "none" /\ sync.cap = Null

LastPageShort ==
  /\ Len(PageRequests) >= 1
  /\ PageRequests[Len(PageRequests)].resp.n < PageSizeOf(sync.fn)

\* full pages 1 to 3 and an empty page 4: exactly 4 requests, 3 pages returned
ThreeFullPagesScenario ==
  (sync.pc = "fetched" /\ sync.listing = 3 * PageSizeOf(sync.fn))
    => /\ Len(PageRequests) = 4
       /\ Count(sync.result) = 3 * PageSizeOf(sync.fn)

\* C13 as stated: a fetch with no activity cap requests pages 1, 2, 3, ...
\* in ascending order with a fixed page size, stops at the first page that
\* returns fewer items than the page size, and returns the concatenation of
\* the received pages.  The direct sync-beta fetch also stops after page 100
\* when all of the first 100 pages are full.
C13_StopsAtFirstShortPage ==
  Uncapped
    => /\ AscendingFullPages
       /\ sync.pc = "fetched"
            => /\ LastPageShort
               /\ sync.result = Concatenation(PageRequests)
       /\ ThreeFullPagesScenario

\* C13, amended: a fetch with no activity cap requests pages 1, 2, 3, ... in
\* ascending order with a fixed page size and returns the concatenation of
\* the received pages; it stops at the first page shorter than the page size
\* or, in the direct sync-beta fetch, after page 100 when none of the first
\* 100 pages is short.  Full pages 1 to 3 and an empty page 4: 4 requests.
C13_StopsAtShortPageOrPageLimit ==
  Uncapped
    => /\ AscendingFullPages
       /\ sync.pc = "fetched"
            => /\ \/ LastPageShort
                  \/ sync.fn = "sync-beta" /\ Len(PageRequests) = PageLimit
               /\ sync.result = Concatenation(PageRequests)
       /\ ThreeFullPagesScenario

C13_Witness ==
  /\ Uncapped
  /\ sync.fn = "processJob"
  /\ sync.pc = "fetched"
  /\ sync.listing = 3 * perPage
  /\ Len(PageRequests) = 4
  /\ PageRequests[4].resp.n = 0
  /\ sync.result = <<[first |-> 1, n |-> perPage],
                     [first |-> perPage + 1, n |-> perPage],
                     [first |-> 2 * perPage + 1, n |-> perPage]>>

\* C14: whatever the provider answers, a fetch issues no more page requests
\* than the hard cap on the page count allows.  fetchStravaActivities has the
\* cap (PageLimit pages); the loop of fetchActivitiesFromStrava has none and
\* goes on for as long as the provider returns full pages.
C14_PageRequestsBounded == Len(PageRequests) <= PageLimit

(***************************************************************************)
(* Sync jobs                                                               *)
(***************************************************************************)
\* a job with metadata.max_activities whose window holds at least that many
\* activities at the provider has run to its end without a failed request
CappedJobDone ==
  /\ job.pc = "done"
  /\ sync.fn = "processJob"
  /\ sync.pc = "fetched"
  /\ sync.cap # Null
  /\ sync.listing = Endless \/ sync.listing >= sync.cap

\* the activities the provider handed over in its answers
ReceivedFromProvider == Count(Concatenation(PageRequests))

\* what the job stores and reports: at most max_activities, N in total
CappedJobOutcome ==
  CappedJobDone
    => /\ Cardinality(job.stored) <= sync.cap
       /\ Len(job.attempts) <= sync.cap
       /\ job.row.status = "completed"
       /\ job.row.total_activities = sync.cap

\* C15: a sync job whose metadata.max_activities is N, run against a
\* provider that has M >= N activities in the job's window, fetches at most
\* N activities from the provider, stores at most N, and completes with
\* total_activities = N.  The job does store at most N and reports N, but its
\* page request asks for 200 activities whatever N is, and the provider hands
\* over min(M, 200) of them.
C15_CapBoundsFetchAndStore ==
  /\ CappedJobDone => ReceivedFromProvider <= sync.cap
  /\ CappedJobOutcome

\* processJob has run to its end after a fetch that returned
JobRanToEnd ==
  /\ job.pc = "done"
  /\ sync.fn = "processJob"
  /\ sync.pc = "fetched"

FailedAttempts == {i \in DOMAIN job.attempts : job.attempts[i] \in job.failing}

\* C16: a storage failure of one activity does not abort the job: every
\* fetched activity is attempted exactly once in the order the provider
\* returned it, the job ends completed, total_activities is the number of
\* activities fetched and processed_activities + failed_activities is
\* total_activities.
C16_StoreFailureDoesNotAbort ==
  /\ job.pc = "storing"
       => /\ Len(job.attempts) < Count(sync.result)
          /\ job.attempts = SubSeq(ItemsOf(sync.result), 1, Len(job.attempts))
  /\ JobRanToEnd
       => /\ job.attempts = ItemsOf(sync.result)
          /\ job.row.status = "completed"
          /\ job.row.total_activities = Count(sync.result)
          /\ job.row.failed_activities = Cardinality(FailedAttempts)
          /\ job.row.processed_activities + job.row.failed_activities
               = job.row.total_activities
          /\ job.stored = {job.attempts[i] : i \in DOMAIN job.attempts} \ job.failing

C16_Witness ==
  /\ JobRanToEnd
  /\ job.row.status = "completed"
  /\ job.failing = {2}
  /\ job.row.failed_activities = 1
  /\ job.row.total_activities = 55
  /\ job.row.processed_activities = 54
  /\ 3 \in job.stored
  /\ 2 \notin job.stored

\* processJob has ended in its catch block
JobRunFailed == job.pc = "done" /\ job.row.status = "failed"

\* the job's row is failed with a message and an end time, and nothing was
\* stored or counted
OnlyJobRowMarkedFailed ==
  /\ job.row.error_message # "NULL"
  /\ job.row.completed_at # Null
  /\ job.stored = {}
  /\ job.attempts = <<>>
  /\ job.row.total_activities = 0
  /\ job.row.processed_activities = 0
  /\ job.row.failed_activities = 0

\* the stored credential was expired when the job began, and the job's
\* refresh of it was accepted and written
RefreshedByJob ==
  /\ job.before["strava_tokens"].expires_at <= job.row.started_at
  /\ tokens["strava_tokens"].expires_at = job.row.started_at + TokenLife
  /\ tokens["strava_tokens"].access_token
       # job.before["strava_tokens"].access_token

\* C17 as stated: if the token refresh is rejected or a page request of the
\* fetch fails during a job, the only persistent change of the run is to the
\* job's own row: no activity is stored, no counter is credited, and the
\* credential rows are as they were.  A refresh that was accepted before the
\* failing page request has been written to strava_tokens.
C17_OnlyJobRowChanges ==
  JobRunFailed => OnlyJobRowMarkedFailed /\ tokens = job.before

\* C17, amended: if the token refresh is rejected or a page request fails,
\* the job's row is marked failed with error_message and completed_at, no
\* activity is stored or modified and no counter is credited; a rejected
\* refresh leaves the stored credential and the athlete's row as they were,
\* and the only other change a failed run can leave is the credential that
\* an accepted refresh stored before the failing page request.
C17_FailedRunKeepsNoPartialWork ==
  JobRunFailed
    => /\ OnlyJobRowMarkedFailed
       /\ tokens["athletes"] = job.before["athletes"]
       /\ job.row.error_message = "Token refresh failed" => tokens = job.before
       /\ tokens # job.before
            => job.row.error_message = "Strava API error" /\ RefreshedByJob

C17_Witness ==
  /\ JobRunFailed
  /\ job.row.error_message = "Strava API error"
  /\ RefreshedByJob
  /\ Len(PageRequests) = 2
  /\ ~PageRequests[2].ok
  /\ Count(sync.got) = perPage
  /\ job.stored = {}

(***************************************************************************)
(* Claims about one processor tick                                         *)
(***************************************************************************)
Range(q) == {q[i] : i \in DOMAIN q}

\* invocation w ends the job at the head of its batch on this step
EndsJob(w) == proc[w].pc = "run" /\ proc'[w] # proc[w]

\* C18: within one processor tick every selected job is attempted and driven
\* to completed or failed whether or not earlier jobs of the tick failed: the
\* invocation marks the head of its batch in_progress, ends it as completed
\* or failed, and goes on with the rest of the batch after either outcome;
\* the step that ends a job changes no other job's row and no stored
\* activity.
C18_JobsOfATickIndependent ==
  [][\A w \in Workers :
       /\ (proc[w].pc = "claim" /\ proc'[w] # proc[w])
            => /\ proc'[w] = [pc |-> "run", queue |-> proc[w].queue]
               /\ jobs'[Head(proc[w].queue)].status = "in_progress"
       /\ EndsJob(w)
            => LET j == Head(proc[w].queue)
               IN  /\ jobs[j].status = "in_progress"
                   /\ jobs'[j].status \in {"completed", "failed"}
                   /\ \A k \in DOMAIN jobs : k # j => jobs'[k] = jobs[k]
                   /\ activities' = activities
                   /\ ingested' = ingested
                   /\ IF Len(proc[w].queue) > 1
                      THEN proc'[w] = [pc |-> "claim", queue |-> Tail(proc[w].queue)]
                      ELSE proc'[w] = IdleProc]_vars

C18_Witness ==
  /\ jobs[1].status = "failed"
  /\ jobs[2].status = "failed"
  /\ jobs[3].status = "in_progress"
  /\ proc[TickWorker] = [pc |-> "run", queue |-> <<3, 4, 5>>]

\* invocation w reads its batch on this step
SelectsBatch(w) == proc[w].pc = "idle" /\ proc'[w].pc # "idle"

PendingIds(js) == {j \in DOMAIN js : js[j].status = "pending"}

\* C19: a processor tick selects at most 5 jobs, all of them pending at
\* selection time, in ascending created_at order, and never selects a pending
\* job while an older pending job is left unselected; it moves no more than
\* those jobs to in_progress.
C19_TickSelectsOldestPending ==
  [][\A w \in Workers :
       /\ SelectsBatch(w)
            => LET q == proc'[w].queue
               IN  /\ Len(q) <= BatchLimit
                   /\ Range(q) \subseteq PendingIds(jobs)
                   /\ \A i \in DOMAIN q : \A k \in DOMAIN q : i < k => q[i] < q[k]
                   /\ \A j \in PendingIds(jobs) \ Range(q) :
                        \A i \in DOMAIN q : q[i] < j
                   /\ jobs' = jobs
       /\ proc[w].pc # "idle"
            => proc'[w].queue \in {proc[w].queue, Tail(proc[w].queue)}
       /\ \A j \in DOMAIN jobs :
            (jobs[j].status # "in_progress" /\ jobs'[j].status = "in_progress")
              => \E v \in Workers :
                   proc[v].pc = "claim" /\ j = Head(proc[v].queue)]_vars

C19_Witness ==
  /\ proc[TickWorker] = [pc |-> "run", queue |-> <<2, 3, 4, 5>>]
  /\ jobs[1].status = "completed"
  /\ jobs[2].status = "in_progress"
  /\ \A j \in 3..(BatchLimit + 1) : jobs[j].status = "pending"

(***************************************************************************)
(* Claims about the Strava webhook                                         *)
(***************************************************************************)
LacksRequiredId(e) == e.object_id = Null \/ e.owner_id = Null

\* C20: every POST event delivery to the Strava webhook is answered with
\* status 200 whatever fails while processing it; the only other answer to
\* a POST is 400, for a create/activity event that lacks object_id or
\* owner_id.
C20_PostAnswered200 ==
  post.delivered
    => \/ post.response.status = 200
       \/ /\ post.response.status = 400
          /\ post.event.parses
          /\ post.event.aspect_type = "create"
          /\ post.event.object_type = "activity"
          /\ LacksRequiredId(post.event)

C20_Witness ==
  /\ post.delivered
  /\ post.event.parses
  /\ post.event.aspect_type = "create"
  /\ post.event.object_type = "activity"
  /\ ~LacksRequiredId(post.event)
  /\ post.fail = "token refresh"
  /\ post.response = Response(200, "ERROR_LOGGED")

(***************************************************************************)
(* Claims about deauthorization, verification and revoked connections      *)
(***************************************************************************)
\* a deauthorization event is answered on this step (no other step changes
\* post or athlete and leaves the handler and the verification alone)
DeauthorizationAnswered ==
  /\ handler' = handler
  /\ verify' = verify
  /\ post'.delivered
  /\ post'.event = DeauthorizationEvent

CredentialCleared(row) ==
  /\ ~row.strava_connected
  /\ row.access_token = Null
  /\ row.refresh_token = Null
  /\ row.token_expires_at = Null

\* C21: on an update event with updates.authorized = false the athlete's
\* access token, refresh token and expiry are cleared and the athlete is
\* marked disconnected by the time the handler answers DEAUTH_PROCESSED; if
\* the datastore update fails the answer is ERROR_LOGGED (with status 200),
\* not the success acknowledgment, and the row is as it was.
C21_DeauthorizationClearsOrReportsFailure ==
  [][DeauthorizationAnswered
       => /\ post'.response.body = "DEAUTH_PROCESSED"
               => CredentialCleared(athlete')
          /\ post'.fail = "deauthorization update"
               => /\ post'.response.body = "ERROR_LOGGED"
                  /\ post'.response # Response(200, "DEAUTH_PROCESSED")
                  /\ athlete' = athlete
          /\ post'.response.body \in {"DEAUTH_PROCESSED", "ERROR_LOGGED"}]_vars

C21_Witness ==
  /\ post = Answered(DeauthorizationEvent, "deauthorization update")
  /\ post.response.body = "ERROR_LOGGED"
  /\ athlete.strava_connected
  /\ athlete.access_token # Null

\* a verification request is answered on this step
VerificationAnswered == verify' # verify

\* C22: with a verify token configured, a GET verification request is
\* answered 200 with the request's own challenge if and only if hub.mode is
\* subscribe and hub.verify_token equals the configured secret, and 403
\* otherwise; in both cases nothing is read from or written to the
\* datastore and no provider call is made.
C22_VerificationSideEffectFree ==
  [][(VerificationAnswered /\ verify'.configured # "NULL")
       => /\ IF verify'.mode = "subscribe" /\ verify'.token = verify'.configured
             THEN verify'.response
                    = Response(200, ChallengeBody(verify'.challenge))
             ELSE verify'.response.status = 403
          /\ athlete' = athlete
          /\ handler' = handler
          /\ post' = post
          /\ activities' = activities
          /\ jobs' = jobs
          /\ tokens' = tokens
          /\ calls' = calls]_vars

C22_Witness ==
  /\ verify.requested
  /\ verify.configured = VerifySecret
  /\ verify.mode = "subscribe"
  /\ verify.token = "guess"
  /\ verify.challenge = "c1"
  /\ verify.response.status = 403

\* a create/activity event arrives on this step
CreateEventArrives == handler.pc = "idle" /\ handler'.n = handler.n + 1

\* C23: a create/activity event for an athlete whose connection has been
\* revoked (strava_connected false) is acknowledged with 200 and causes no
\* token refresh, no provider request, no write to activities or athletes
\* and no notification.
C23_RevokedAthleteIgnored ==
  [][(CreateEventArrives /\ ~athlete.strava_connected)
       => /\ post'.delivered
          /\ post'.event = CreateEvent
          /\ post'.response.status = 200
          /\ handler'.pc = "idle"
          /\ handler'.effects = <<>>
          /\ athlete' = athlete
          /\ activities' = activities]_vars

C23_Witness ==
  /\ post = Answered(CreateEvent, "disconnected")
  /\ post.response = Response(200, "IGNORED_DISCONNECTED_USER")
  /\ ~athlete.strava_connected
  /\ handler.pc = "idle"
  /\ handler.n > 0
  /\ handler.effects = <<>>

\* C28: once a deauthorization has been processed the athlete's stored
\* access token and refresh token stay null (no OAuth handshake follows in
\* this model), under every interleaving with a create/activity handler that
\* was already running.  The handler's refreshAccessToken stores the renewed
\* credential by the athlete's id alone, also after the deauthorization.
C28_TokensStayClearedAfterDeauthorization ==
  athlete.strava_disconnected_at # Null
    => athlete.access_token = Null /\ athlete.refresh_token = Null

\* C26: between any two consecutive page requests of one fetch there is a
\* rate-limit delay, in the sync processor's fetch and in the direct
\* sync-beta fetch alike: no page request follows another page request
\* without a wait in between.
C26_DelayBetweenPageRequests ==
  \A i \in 1..(Len(wire) - 1) :
    wire[i].kind = "page" => wire[i + 1].kind = "wait"

\* the number of activities a fetch with limit L owes for a listing of M
FirstMin(L, M) ==
  IF L = Null THEN M ELSE IF M = Endless THEN L ELSE Min(L, M)

RECURSIVE InOrderFrom(_, _)
\* the pages hold the listing positions first, first + 1, ... without a gap
\* or a repetition
InOrderFrom(pages, first) ==
  \/ pages = <<>>
  \/ /\ Head(pages).first = first
     /\ InOrderFrom(Tail(pages), first + Head(pages).n)

\* C29: a direct sync-beta fetch with limit L against a provider listing of
\* M activities returns exactly the first min(L, M) activities of the
\* listing, each once and in listing order, for every L and M, limits that
\* are not a multiple of the page size included (a fetch without a limit
\* against an endless listing is left aside).
C29_DirectFetchReturnsFirstActivities ==
  (/\ sync.fn = "sync-beta"
   /\ sync.pc = "fetched"
   /\ ~(sync.cap = Null /\ sync.listing = Endless))
    => /\ InOrderFrom(sync.result, 1)
       /\ Count(sync.result) = FirstMin(sync.cap, sync.listing)

(***************************************************************************)
(* Claims about retention                                                  *)
(***************************************************************************)
Terminal(row) == row.status \in {"completed", "failed"}

\* the step is a run of the retention sweep that deletes something
SweepDeletes ==
  /\ \E j \in JobIds : jobs[j].status # "absent" /\ jobs'[j].status = "absent"
  /\ UNCHANGED <<nextJob, proc, crashes>>

\* C27: the retention sweep deletes exactly the completed and failed jobs
\* whose completed_at is more than 30 days old and leaves every other row,
\* pending and in_progress jobs included, as it was; every job in a
\* terminal status (completed, failed by its run, failed at the retry cap)
\* has completed_at set, and under a sweep that runs daily it is eventually
\* purged.
C27_RetentionPurgesTerminalJobs ==
  /\ [][SweepDeletes
          => \A j \in JobIds :
               IF Terminal(jobs[j]) /\ jobs[j].completed_ago # Null
                    /\ jobs[j].completed_ago > RetentionDays
               THEN jobs'[j].status = "absent"
               ELSE jobs'[j] = jobs[j]]_vars
  /\ [](\A j \in JobIds : Terminal(jobs[j]) => jobs[j].completed_ago # Null)
  /\ \A j \in JobIds : Terminal(jobs[j]) ~> (jobs[j].status = "absent")

\* a job has been purged after an invocation was killed
C27_Witness ==
  \E j \in JobIds :
    /\ j <= nextJob
    /\ jobs[j].status = "absent"
    /\ crashes > 0

\* C30: every completed job has a null error_message, jobs that the
\* staleness sweep reset earlier and that completed later included.
C30_CompletedJobHasNoErrorMessage ==
  \A j \in JobIds :
    jobs[j].status = "completed" => jobs[j].error_message = "NULL"

(***************************************************************************)
(* Claims about the choice among stored activities                         *)
(***************************************************************************)
\* a dimension is not disconfirming: a value is missing on either side, or
\* the difference is within the tolerance the code applies
NotDisconfirming(stored, candidate, tolerance) ==
  \/ stored = Null
  \/ candidate = Null
  \/ Abs(stored - candidate) < tolerance

\* the stored activities in the time window of summary g that neither the
\* distance nor the duration disconfirms
NotDisconfirmed(T, g) ==
  {r \in MatchCandidates(T, GarminReport(g)) :
     /\ NotDisconfirming(r["distance"], g.distanceInMeters, DistanceTolerance)
     /\ NotDisconfirming(r["elapsed_time"], g.durationInSeconds,
                         DurationTolerance)}

\* C24: a missing distance or a missing duration, on the candidate or on
\* the stored activity, never prevents a match: whenever a stored activity
\* in the time window is disconfirmed by neither dimension (a dimension with
\* a missing value on either side counting as not disconfirming) and the
\* lookup succeeds, the decision is MergeInto.
C24_MissingValueNeverPreventsMatch ==
  [][\A g \in MatchSummaries : \A dt \in Gaps : \A dbOk \in BOOLEAN :
       (processActivity(g, now + dt, TRUE, dbOk)
          /\ NotDisconfirmed(activities, g) # {})
         => lastStore'.decision = "MergeInto"]_vars

\* the stored activities that satisfy the match conditions of the code
Matching(T, g) ==
  {r \in InTimeWindow(T, GarminAthlete, g.startTimeInSeconds) :
     /\ DistanceMatch(r, g.distanceInMeters)
     /\ DurationMatch(r, g.durationInSeconds)}

TimeDelta(r, g) == Abs(r["activity_date"] - g.startTimeInSeconds)

\* C25: when several stored activities satisfy the match conditions for one
\* candidate, the activity merged into is one whose start time has the
\* smallest absolute difference from the candidate's start time, whatever
\* order the datastore returns the rows in.
C25_MergesIntoNearestStart ==
  [][(Reconciles /\ lastStore'.decision = "MergeInto")
       => \A r \in Matching(activities, lastStore'.payload) :
            \A q \in activities :
              q["id"] = lastStore'.target
                => TimeDelta(q, lastStore'.payload)
                     <= TimeDelta(r, lastStore'.payload)]_vars

TypeOK ==
  /\ nextJob \in 0..MaxJobs
  /\ crashes \in 0..MaxCrashes
  /\ \A j \in JobIds :
       jobs[j].status \in {"absent", "pending", "in_progress", "completed", "failed"}
====
